---------------------------- MODULE Spec2Model ----------------------------
(***************************************************************************)
(* Numerical-integration calculator (src/src/main.rs): the sampler, the    *)
(* bound-line generators, the trapezoidal integrator and the settings      *)
(* focus grid with its key dispatch.                                       *)
(*                                                                         *)
(* Numbers.  The program computes in f64.  A number is modelled as an      *)
(* integer count of quanta (1.0 = Quanta quanta) that is representable     *)
(* with Precision significant bits; every arithmetic operation of the      *)
(* source is the exact operation followed by rounding to nearest, ties to  *)
(* even, as IEEE-754 does with 53 bits.  Below 2^Precision quanta the      *)
(* arithmetic is exact, above it sums round, as the sums of the f64        *)
(* program do.  The step dx is the source's 0.001 coarsened to 39/128 so   *)
(* that the default window holds tens of samples instead of ten thousand;  *)
(* like 0.001 it is not a power of two.                                    *)
(***************************************************************************)
EXTENDS Integers, Sequences, FiniteSets, TLC

\* ------------------------------------------------------------------ sizes
\* Quanta per 1.0 and significant bits of the number format.
Quanta == 128
Precision == 13
\* Longest text buffer a key press may still extend, and events per session.
MaxLen == 2
MaxEvents == 7
\* Characters the keyboard can type (KeyCode::Char).
Keys == {"1", "-"}

\* ------------------------------------------------------------- arithmetic
Abs(n) == IF n < 0 THEN -n ELSE n

Sign(n) == IF n < 0 THEN -1 ELSE 1

\* Exponent e >= 0 of the binade of q: the least e with q < 2^(Precision+e).
RECURSIVE BinadeOf(_, _)
BinadeOf(q, e) == IF q < 2^(Precision + e) THEN e ELSE BinadeOf(q, e + 1)

\* n/d (d > 0) rounded to the nearest representable number, ties to even.
RoundRat(n, d) ==
    LET a     == Abs(n)
        e     == BinadeOf(a \div d, 0)
        scale == d * 2^e
        q     == a \div scale
        r     == a % scale
        up    == (2 * r > scale) \/ (2 * r = scale /\ q % 2 = 1)
        m     == IF up THEN q + 1 ELSE q
    IN  Sign(n) * m * 2^e

\* f64 +, -, *, / on quanta counts.
FAdd(a, b) == RoundRat(a + b, 1)

FSub(a, b) == RoundRat(a - b, 1)

FMul(a, b) == RoundRat(a * b, Quanta)

FDiv(a, b) == RoundRat(Sign(b) * a * Quanta, Abs(b))

\* The f64 value of the integer literal n (100.0, 2.0, parsed digits).
ToF(n) == RoundRat(n * Quanta, 1)

\* self.dx (0.001 in the source, see the header).
dx == 39

\* ------------------------------------------------------------ Option<T>
None == <<>>

Some(v) == <<v>>

IsNone(o) == o = <<>>

Unwrap(o) == o[1]

\* ------------------------------------------------------------ characters
Digits == {"0", "1", "2", "3", "4", "5", "6", "7", "8", "9"}

Letters == {"x"}

DigitVal(c) == CASE c = "0" -> 0 [] c = "1" -> 1 [] c = "2" -> 2 [] c = "3" -> 3
                 [] c = "4" -> 4 [] c = "5" -> 5 [] c = "6" -> 6 [] c = "7" -> 7
                 [] c = "8" -> 8 [] c = "9" -> 9

\* Decimal value of a sequence of digits.
RECURSIVE DecVal(_)
DecVal(s) == IF s = <<>> THEN 0
             ELSE 10 * DecVal(SubSeq(s, 1, Len(s) - 1)) + DigitVal(s[Len(s)])

AllIn(s, set) == \A k \in 1..Len(s) : s[k] \in set

\* str::parse::<f64>() on texts over digits, "-" and letters: an optional
\* sign followed by one or more digits; anything else is Err (None).
ParseF64(s) ==
    LET body == IF s # <<>> /\ s[1] = "-" THEN Tail(s) ELSE s
    IN  IF body # <<>> /\ AllIn(body, Digits)
        THEN Some(IF body = s THEN ToF(DecVal(body)) ELSE -ToF(DecVal(body)))
        ELSE None

\* --------------------------------------------------- expression adapter
\* meval, as far as the typable texts go: the text is a chain of operands
\* (a number or an identifier, each under any number of unary minus signs)
\* joined by binary minus.  An expression is the sequence of its operands
\* with their signs folded in.
RECURSIVE RunEnd(_, _, _)
RunEnd(s, pos, set) ==
    IF pos < Len(s) /\ s[pos + 1] \in set THEN RunEnd(s, pos + 1, set) ELSE pos

Operand(s, pos, negative) ==
    IF s[pos] \in Digits
    THEN LET j == RunEnd(s, pos, Digits)
         IN  [last |-> j,
              term |-> [neg |-> negative, name |-> <<>>,
                        num |-> ToF(DecVal(SubSeq(s, pos, j)))]]
    ELSE LET j == RunEnd(s, pos, Letters \cup Digits)
         IN  [last |-> j,
              term |-> [neg |-> negative, name |-> SubSeq(s, pos, j), num |-> 0]]

\* Left-to-right scan; wantOperand is the tokenizer's state.
RECURSIVE ParseTerms(_, _, _, _, _)
ParseTerms(s, pos, negative, wantOperand, acc) ==
    IF pos > Len(s)
    THEN IF wantOperand THEN None ELSE Some(acc)
    ELSE IF wantOperand
         THEN IF s[pos] = "-"
              THEN ParseTerms(s, pos + 1, ~negative, TRUE, acc)
              ELSE IF s[pos] \in Digits \cup Letters
                   THEN LET o == Operand(s, pos, negative)
                        IN  ParseTerms(s, o.last + 1, FALSE, FALSE, Append(acc, o.term))
                   ELSE None
         ELSE IF s[pos] = "-"
              THEN ParseTerms(s, pos + 1, TRUE, TRUE, acc)
              ELSE None

\* str::parse::<Expr>(): Some(expression) or None on a malformed text.
ParseExpr(s) == ParseTerms(s, 1, FALSE, TRUE, <<>>)

\* Expr::bind("x") succeeds iff every identifier of the expression is x.
BindOk(expr) == \A k \in 1..Len(expr) : expr[k].name \in {<<>>, <<"x">>}

TermVal(t, x) ==
    LET v == IF t.name = <<>> THEN t.num ELSE x
    IN  IF t.neg THEN -v ELSE v

\* function(x) of a bound expression.
RECURSIVE EvalFrom(_, _, _, _)
EvalFrom(expr, x, k, acc) ==
    IF k > Len(expr) THEN acc
    ELSE EvalFrom(expr, x, k + 1, FAdd(acc, TermVal(expr[k], x)))

Eval(expr, x) == EvalFrom(expr, x, 2, TermVal(expr[1], x))

\* The expression of the text "x" (App::new parses it).
ExprX == Unwrap(ParseExpr(<<"x">>))

\* ---------------------------------------------------------------- sampler
\* The if / else if of the scan: at sample i (abscissa x) at most one of
\* the two indices is recorded.
UpdateLimits(lim, x, i, bnds) ==
    IF IsNone(lim[1]) /\ x >= bnds[1]
    THEN <<Some(i), lim[2]>>
    ELSE IF IsNone(lim[2]) /\ x >= bnds[2]
         THEN <<lim[1], Some(i)>>
         ELSE lim

\* x += self.dx
Advance(x) == FAdd(x, dx)

\* Up to n iterations of the while loop of populate_data from abscissa x
\* and index i (the run is split in halves, so that the evaluation depth
\* stays logarithmic).  stop: "end" when x < window_x[1] failed, "hang"
\* when x += dx did not move x (the loop then never ends), else "more".
RECURSIVE SampleRun(_, _, _, _, _, _, _)
SampleRun(expr, xmax, bnds, x, i, lim, n) ==
    IF ~(x < xmax)
    THEN [data |-> <<>>, lim |-> lim, x |-> x, i |-> i, stop |-> "end"]
    ELSE IF n = 1
         THEN [data |-> << <<x, Eval(expr, x)>> >>,
               lim  |-> UpdateLimits(lim, x, i, bnds),
               x    |-> Advance(x),
               i    |-> i + 1,
               stop |-> IF Advance(x) = x THEN "hang" ELSE "more"]
         ELSE LET a == SampleRun(expr, xmax, bnds, x, i, lim, n \div 2)
                  b == SampleRun(expr, xmax, bnds, a.x, a.i, a.lim, n - n \div 2)
              IN  IF a.stop # "more" THEN a
                  ELSE [b EXCEPT !.data = a.data \o b.data]

\* The whole loop, from x = window_x[0], i = 0.
RECURSIVE SampleLoop(_, _, _, _, _, _, _)
SampleLoop(expr, xmax, bnds, x, i, d, lim) ==
    LET r == SampleRun(expr, xmax, bnds, x, i, lim, 64)
    IN  IF r.stop = "more"
        THEN SampleLoop(expr, xmax, bnds, r.x, r.i, d \o r.data, r.lim)
        ELSE [data |-> d \o r.data, limits_indexs |-> r.lim,
              fault |-> IF r.stop = "hang" THEN "hang" ELSE "none"]

\* ------------------------------------------------------- line generators
\* Up to n iterations of  while v < limit { push(v); v += step }  from v.
RECURSIVE WalkRun(_, _, _, _)
WalkRun(v, step, limit, n) ==
    IF ~(v < limit)
    THEN [vals |-> <<>>, v |-> v, stop |-> "end"]
    ELSE IF n = 1
         THEN [vals |-> <<v>>, v |-> FAdd(v, step),
               stop |-> IF FAdd(v, step) = v THEN "hang" ELSE "more"]
         ELSE LET a == WalkRun(v, step, limit, n \div 2)
                  b == WalkRun(a.v, step, limit, n - n \div 2)
              IN  IF a.stop # "more" THEN a
                  ELSE [b EXCEPT !.vals = a.vals \o b.vals]

RECURSIVE Walk(_, _, _, _)
Walk(v, step, limit, acc) ==
    LET r == WalkRun(v, step, limit, 64)
    IN  IF r.stop = "more"
        THEN Walk(r.v, step, limit, acc \o r.vals)
        ELSE [vals |-> acc \o r.vals,
              fault |-> IF r.stop = "hang" THEN "hang" ELSE "none"]

\* populate_upper_bound_line / populate_lower_bound_line for the bound x:
\* the points (x, y) for y from window_y[0] up to function(x).
BoundLine(expr, x, ymin) ==
    LET height == Eval(expr, x)
        step   == FDiv(Abs(FSub(ymin, height)), ToF(100))
        w      == Walk(ymin, step, height, <<>>)
    IN  [line |-> [k \in 1..Len(w.vals) |-> <<x, w.vals[k]>>], fault |-> w.fault]

\* populate_x_axis_line: the points (x, 0.0) across the window.
XAxisLine(wx) ==
    LET step == FDiv(Abs(FSub(wx[2], wx[1])), ToF(100))
        w    == Walk(wx[1], step, wx[2], <<>>)
    IN  [line |-> [k \in 1..Len(w.vals) |-> <<w.vals[k], 0>>], fault |-> w.fault]

\* ------------------------------------------------------------- integrator
\* dx * (y2 + y1) / 2.0 for one window of two samples.
Trapezoid(p1, p2) == FDiv(FMul(dx, FAdd(p2[2], p1[2])), ToF(2))

\* acc plus, in order, the terms of the windows (d[k], d[k+1]) for
\* first <= k < last (evaluated in halves; the test on left has the sum of
\* the first half computed before the second half starts).
RECURSIVE WindowsSum(_, _, _, _)
WindowsSum(d, first, last, acc) ==
    IF first >= last THEN acc
    ELSE IF last - first = 1
         THEN FAdd(acc, Trapezoid(d[first], d[first + 1]))
         ELSE LET mid  == first + (last - first) \div 2
                  left == WindowsSum(d, first, mid, acc)
              IN  IF left = left THEN WindowsSum(d, mid, last, left) ELSE left

\* calculate_area over the inclusive slice data[lower..=upper].
CalculateAreaInclusive(d, lim) ==
    IF IsNone(lim[1]) \/ IsNone(lim[2])
    THEN [area |-> 0, fault |-> "panic"]
    ELSE IF Unwrap(lim[1]) > Unwrap(lim[2]) \/ Unwrap(lim[2]) >= Len(d)
         THEN [area |-> 0, fault |-> "panic"]
         ELSE [area |-> WindowsSum(d, Unwrap(lim[1]) + 1, Unwrap(lim[2]) + 1, 0),
               fault |-> "none"]

\* calculate_area: self.data[lower..upper].windows(2).map(..).sum().  The
\* unwraps panic on None, the slice panics when lower > upper or
\* upper > len; self.area = 0.0 is written first.  The slice holds the
\* samples lower+1 .. upper (1-based), its windows start at lower+1 .. upper-1.
CalculateArea(d, lim) ==
    IF IsNone(lim[1]) \/ IsNone(lim[2])
    THEN [area |-> 0, fault |-> "panic"]
    ELSE IF Unwrap(lim[1]) > Unwrap(lim[2]) \/ Unwrap(lim[2]) > Len(d)
         THEN [area |-> 0, fault |-> "panic"]
         ELSE [area |-> WindowsSum(d, Unwrap(lim[1]) + 1, Unwrap(lim[2]), 0),
               fault |-> "none"]

\* ------------------------------------------------------------------ state
VARIABLES function_text, expression, data, limits_indexs, bounds_text, bounds,
          upper_bound_line, lower_bound_line, x_axis_line,
          window_x, window_x_text, window_y, window_y_text, area,
          active_screen, settings_focus, settings_position_x,
          settings_position_y, exit,
          status,  \* "running", or how the process stopped: "panicked", "hung"
          scanned, \* the sampling loop has run to its end since data was cleared
          events   \* number of events read so far

texts == <<function_text, bounds_text, window_x_text, window_y_text>>

committed == <<expression, bounds, window_x, window_y>>

derived == <<data, limits_indexs, upper_bound_line, lower_bound_line, x_axis_line,
             scanned>>

focus == <<settings_focus, settings_position_x, settings_position_y>>

vars == <<texts, committed, derived, area, focus, active_screen, exit, status, events>>

SETTINGS_LAYOUT ==
    << <<"Function", "LowerBound", "UpperBound", "RecalculateArea">>,
       <<"MinimumX", "MaximumX", "MinimumY", "MaximumY">> >>

\* ----------------------------------------------------------- recompute
\* populate_data without its first two statements: the samples are pushed
\* after the ones already held and the indices recorded earlier stay.
ClearSkipped(old) == [old EXCEPT !.scanned = FALSE]

\* self.data.clear(); self.limits_indexs = (None, None);
Clear(old) ==
    [old EXCEPT !.data = <<>>, !.limits_indexs = <<None, None>>, !.scanned = FALSE]

\* populate_data on the committed values (expr, wx, wy, bnds); old holds
\* the fields as they are on entry.  The result is the fields as the
\* function leaves them, or as they are where it panics or hangs.
PopulateData(expr, wx, wy, bnds, old) ==
    LET cleared == Clear(old)
        s  == SampleLoop(expr, wx[2], bnds, wx[1], 0, cleared.data,
                         cleared.limits_indexs)
        a1 == [cleared EXCEPT !.data = s.data, !.limits_indexs = s.limits_indexs,
                              !.scanned = (s.fault = "none")]
        u  == BoundLine(expr, bnds[2], wy[1])
        a2 == [a1 EXCEPT !.upper_bound_line = u.line]
        l  == BoundLine(expr, bnds[1], wy[1])
        a3 == [a2 EXCEPT !.lower_bound_line = l.line]
        h  == XAxisLine(wx)
        a4 == [a3 EXCEPT !.x_axis_line = h.line]
        c  == CalculateArea(a4.data, a4.limits_indexs)
    IN  IF ~BindOk(expr) THEN [cleared EXCEPT !.fault = "panic"]
        ELSE IF s.fault # "none" THEN [a1 EXCEPT !.fault = s.fault]
        ELSE IF u.fault # "none" THEN [a2 EXCEPT !.fault = u.fault]
        ELSE IF l.fault # "none" THEN [a3 EXCEPT !.fault = l.fault]
        ELSE IF h.fault # "none" THEN [a4 EXCEPT !.fault = h.fault]
        ELSE [a4 EXCEPT !.area = c.area, !.fault = c.fault]

\* Enter on RecalculateArea taken as a full recompute: populate_data on
\* the committed values.
RecalculateResampling(old) == PopulateData(expression, window_x, window_y, bounds, old)

\* Enter on RecalculateArea with a calculate_area that adds the sum to the
\* area it finds (no self.area = 0.0, += for =).
RecalculateAccumulating(old) ==
    LET c == CalculateArea(old.data, old.limits_indexs)
    IN  [old EXCEPT !.area = IF c.fault = "none" THEN FAdd(old.area, c.area) ELSE old.area,
                    !.fault = c.fault]

\* Enter on RecalculateArea: calculate_area on the fields as they are.
Recalculate(old) ==
    LET c == CalculateArea(old.data, old.limits_indexs)
    IN  [old EXCEPT !.area = c.area, !.fault = c.fault]

\* The derived fields as a record, fault "none".
Fields ==
    [data |-> data, limits_indexs |-> limits_indexs,
     upper_bound_line |-> upper_bound_line, lower_bound_line |-> lower_bound_line,
     x_axis_line |-> x_axis_line, area |-> area, scanned |-> scanned,
     fault |-> "none"]

StatusOf(fault) ==
    IF fault = "panic" THEN "panicked" ELSE IF fault = "hang" THEN "hung" ELSE "running"

\* Writes the result r of a recompute into the state.
Store(r) ==
    /\ data' = r.data
    /\ limits_indexs' = r.limits_indexs
    /\ upper_bound_line' = r.upper_bound_line
    /\ lower_bound_line' = r.lower_bound_line
    /\ x_axis_line' = r.x_axis_line
    /\ area' = r.area
    /\ scanned' = r.scanned
    /\ status' = StatusOf(r.fault)

\* run with a loop that does not test exit.
ReadingPastExit == status = "running" /\ events < MaxEvents

\* run: the loop reads an event while exit is unset and the process lives.
Reading == ~exit /\ status = "running" /\ events < MaxEvents

\* ----------------------------------------------------------- startup
\* App::new followed by a populate_data before the first event is read.
InitSampled ==
    LET r == PopulateData(ExprX, <<-ToF(5), ToF(5)>>, <<-ToF(10), ToF(10)>>,
                          <<ToF(0), ToF(0)>>,
                          [data |-> <<>>, limits_indexs |-> <<None, None>>,
                           upper_bound_line |-> <<>>, lower_bound_line |-> <<>>,
                           x_axis_line |-> <<>>, area |-> 0, scanned |-> FALSE,
                           fault |-> "none"])
    IN  /\ function_text = <<"x">>
        /\ expression = ExprX
        /\ data = r.data
        /\ limits_indexs = r.limits_indexs
        /\ bounds_text = << <<"0">>, <<"0">> >>
        /\ bounds = <<ToF(0), ToF(0)>>
        /\ upper_bound_line = r.upper_bound_line
        /\ lower_bound_line = r.lower_bound_line
        /\ x_axis_line = r.x_axis_line
        /\ window_x = <<-ToF(5), ToF(5)>>
        /\ window_x_text = << <<"-", "5">>, <<"5">> >>
        /\ window_y = <<-ToF(10), ToF(10)>>
        /\ window_y_text = << <<"-", "1", "0">>, <<"1", "0">> >>
        /\ area = r.area
        /\ active_screen = "Main"
        /\ settings_focus = "Function"
        /\ settings_position_x = 0
        /\ settings_position_y = 0
        /\ exit = FALSE
        /\ status = StatusOf(r.fault)
        /\ scanned = r.scanned
        /\ events = 0

\* App::new
Init ==
    /\ function_text = <<"x">>
    /\ expression = ExprX
    /\ data = <<>>
    /\ limits_indexs = <<None, None>>
    /\ bounds_text = << <<"0">>, <<"0">> >>
    /\ bounds = <<ToF(0), ToF(0)>>
    /\ upper_bound_line = <<>>
    /\ lower_bound_line = <<>>
    /\ x_axis_line = <<>>
    /\ window_x = <<-ToF(5), ToF(5)>>
    /\ window_x_text = << <<"-", "5">>, <<"5">> >>
    /\ window_y = <<-ToF(10), ToF(10)>>
    /\ window_y_text = << <<"-", "1", "0">>, <<"1", "0">> >>
    /\ area = 0
    /\ active_screen = "Main"
    /\ settings_focus = "Function"
    /\ settings_position_x = 0
    /\ settings_position_y = 0
    /\ exit = FALSE
    /\ status = "running"
    /\ scanned = FALSE
    /\ events = 0

\* ---------------------------------------------------------- text buffers
\* The buffer the match on settings_focus selects (RecalculateArea: none).
FocusText ==
    CASE settings_focus = "Function"   -> function_text
      [] settings_focus = "LowerBound" -> bounds_text[1]
      [] settings_focus = "UpperBound" -> bounds_text[2]
      [] settings_focus = "MinimumX"   -> window_x_text[1]
      [] settings_focus = "MaximumX"   -> window_x_text[2]
      [] settings_focus = "MinimumY"   -> window_y_text[1]
      [] settings_focus = "MaximumY"   -> window_y_text[2]
      [] OTHER                         -> <<>>

\* Replaces the buffer of field by t and leaves the other six alone.
SetText(field, t) ==
    /\ function_text' = IF field = "Function" THEN t ELSE function_text
    /\ bounds_text' = IF field = "LowerBound" THEN <<t, bounds_text[2]>>
                      ELSE IF field = "UpperBound" THEN <<bounds_text[1], t>>
                      ELSE bounds_text
    /\ window_x_text' = IF field = "MinimumX" THEN <<t, window_x_text[2]>>
                        ELSE IF field = "MaximumX" THEN <<window_x_text[1], t>>
                        ELSE window_x_text
    /\ window_y_text' = IF field = "MinimumY" THEN <<t, window_y_text[2]>>
                        ELSE IF field = "MaximumY" THEN <<window_y_text[1], t>>
                        ELSE window_y_text

\* A pop that removes the first character.
PopFront(t) == IF t = <<>> THEN t ELSE Tail(t)

\* String::pop
Pop(t) == IF t = <<>> THEN t ELSE SubSeq(t, 1, Len(t) - 1)

\* ------------------------------------------------------------- dispatch
\* KeyCode::Char(character) handled only while Settings is active.
KeyCharOnSettings(c) ==
    /\ Reading
    /\ Len(FocusText) < MaxLen
    /\ IF active_screen = "Settings"
       THEN SetText(settings_focus, Append(FocusText, c))
       ELSE UNCHANGED texts
    /\ events' = events + 1
    /\ UNCHANGED <<committed, derived, area, focus, active_screen, exit, status>>

\* KeyCode::Char(character)
KeyChar(c) ==
    /\ Reading
    /\ Len(FocusText) < MaxLen
    /\ SetText(settings_focus, Append(FocusText, c))
    /\ events' = events + 1
    /\ UNCHANGED <<committed, derived, area, focus, active_screen, exit, status>>

\* KeyCode::Backspace
KeyBackspace ==
    /\ Reading
    /\ SetText(settings_focus, Pop(FocusText))
    /\ events' = events + 1
    /\ UNCHANGED <<committed, derived, area, focus, active_screen, exit, status>>

\* The committed values after the parse of the focused buffer, or None
\* where the parse fails (the unwrap panics before anything is assigned).
Parsed(field) ==
    LET cur == [expression |-> expression, bounds |-> bounds,
                window_x |-> window_x, window_y |-> window_y]
        e   == ParseExpr(function_text)
        n   == ParseF64(FocusText)
    IN  IF field = "Function"
        THEN IF IsNone(e) THEN None ELSE Some([cur EXCEPT !.expression = Unwrap(e)])
        ELSE IF IsNone(n) THEN None
        ELSE Some(CASE field = "LowerBound" -> [cur EXCEPT !.bounds[1] = Unwrap(n)]
                    [] field = "UpperBound" -> [cur EXCEPT !.bounds[2] = Unwrap(n)]
                    [] field = "MinimumX"   -> [cur EXCEPT !.window_x[1] = Unwrap(n)]
                    [] field = "MaximumX"   -> [cur EXCEPT !.window_x[2] = Unwrap(n)]
                    [] field = "MinimumY"   -> [cur EXCEPT !.window_y[1] = Unwrap(n)]
                    [] field = "MaximumY"   -> [cur EXCEPT !.window_y[2] = Unwrap(n)])

\* KeyCode::Enter
KeyEnter ==
    /\ Reading
    /\ events' = events + 1
    /\ UNCHANGED <<texts, focus, active_screen, exit>>
    /\ IF settings_focus = "RecalculateArea"
       THEN /\ Store(Recalculate(Fields))
            /\ UNCHANGED committed
       ELSE LET p == Parsed(settings_focus)
            IN  IF IsNone(p)
                THEN /\ status' = "panicked"
                     /\ UNCHANGED <<committed, derived, area>>
                ELSE LET v == Unwrap(p)
                     IN  /\ expression' = v.expression
                         /\ bounds' = v.bounds
                         /\ window_x' = v.window_x
                         /\ window_y' = v.window_y
                         /\ Store(PopulateData(v.expression, v.window_x,
                                               v.window_y, v.bounds, Fields))

\* The focus after an arrow key: the guarded move of the four arms.
MoveLeft(x, screen) == IF x # 0 /\ screen = "Settings" THEN x - 1 ELSE x

\* MoveRight without the edge test: the column wraps around.
MoveRightWrap(x, screen) == IF screen = "Settings" THEN (x + 1) % 4 ELSE x

MoveRight(x, screen) == IF x # 3 /\ screen = "Settings" THEN x + 1 ELSE x

MoveUp(y, screen) == IF y # 0 /\ screen = "Settings" THEN y - 1 ELSE y

\* MoveDown without the screen test.
MoveDownAnyScreen(y, screen) == IF y # 1 THEN y + 1 ELSE y

MoveDown(y, screen) == IF y # 1 /\ screen = "Settings" THEN y + 1 ELSE y

\* An arrow arm that moves the coordinate and does not reassign
\* settings_focus.
MoveToStale(x, y) ==
    /\ settings_position_x' = x
    /\ settings_position_y' = y
    /\ settings_focus' = settings_focus
    /\ events' = events + 1
    /\ UNCHANGED <<texts, committed, derived, area, active_screen, exit, status>>

\* settings_focus = &SETTINGS_LAYOUT[y][x], assigned only when the guard
\* of the arm held.
MoveTo(x, y) ==
    /\ settings_position_x' = x
    /\ settings_position_y' = y
    /\ settings_focus' =
           IF x = settings_position_x /\ y = settings_position_y
           THEN settings_focus
           ELSE SETTINGS_LAYOUT[y + 1][x + 1]
    /\ events' = events + 1
    /\ UNCHANGED <<texts, committed, derived, area, active_screen, exit, status>>

\* KeyCode::Left, Right, Up, Down
KeyLeft == Reading /\ MoveTo(MoveLeft(settings_position_x, active_screen), settings_position_y)

KeyRight == Reading /\ MoveTo(MoveRight(settings_position_x, active_screen), settings_position_y)

KeyUp == Reading /\ MoveTo(settings_position_x, MoveUp(settings_position_y, active_screen))

KeyDown == Reading /\ MoveTo(settings_position_x, MoveDown(settings_position_y, active_screen))

\* KeyCode::Esc
KeyEsc ==
    /\ Reading
    /\ IF active_screen = "Main"
       THEN exit' = TRUE /\ UNCHANGED active_screen
       ELSE active_screen' = "Main" /\ UNCHANGED exit
    /\ events' = events + 1
    /\ UNCHANGED <<texts, committed, derived, area, focus, status>>

\* KeyCode::Tab as a symmetric toggle.
KeyTabToggle ==
    /\ Reading
    /\ active_screen' = IF active_screen = "Main" THEN "Settings" ELSE "Main"
    /\ events' = events + 1
    /\ UNCHANGED <<texts, committed, derived, area, focus, exit, status>>

\* KeyCode::Tab
KeyTab ==
    /\ Reading
    /\ active_screen' = "Settings"
    /\ events' = events + 1
    /\ UNCHANGED <<texts, committed, derived, area, focus, exit, status>>

\* Any other key, and any event that is no key event.
KeyOther ==
    /\ Reading
    /\ events' = events + 1
    /\ UNCHANGED <<texts, committed, derived, area, focus, active_screen, exit, status>>

\* handle_events
Next ==
    \/ \E c \in Keys : KeyChar(c)
    \/ KeyBackspace
    \/ KeyEnter
    \/ KeyLeft
    \/ KeyRight
    \/ KeyUp
    \/ KeyDown
    \/ KeyEsc
    \/ KeyTab
    \/ KeyOther

Spec == Init /\ [][Next]_vars

\* ------------------------------------------------- recompute on its own
\* The session with chosen committed values: the window and the bounds are
\* drawn from small sets, the settings popup is open on the Function field
\* with a function text typed in, and the user confirms it (each Confirm
\* parses the text and recomputes everything).
XBig == 2^Precision

CalcTexts == {<<"x">>, <<"-", "x">>, <<"0">>, <<"x", "-", "1">>}

CalcWindowsX ==
    {<<0, 4 * dx>>, <<0, 4 * dx + 1>>, <<-2 * dx, 3 * dx>>, <<dx, dx>>,
     <<XBig, XBig + 400>>}

CalcBounds == {-dx, 0, dx + 1, 2 * dx, 4 * dx, XBig + 40}

InitCalc ==
    /\ function_text \in CalcTexts
    /\ expression = ExprX
    /\ window_x \in CalcWindowsX
    /\ bounds \in CalcBounds \X CalcBounds
    /\ data = <<>>
    /\ limits_indexs = <<None, None>>
    /\ bounds_text = << <<"0">>, <<"0">> >>
    /\ upper_bound_line = <<>>
    /\ lower_bound_line = <<>>
    /\ x_axis_line = <<>>
    /\ window_x_text = << <<"-", "5">>, <<"5">> >>
    /\ window_y = <<-ToF(10), ToF(10)>>
    /\ window_y_text = << <<"-", "1", "0">>, <<"1", "0">> >>
    /\ area = 0
    /\ active_screen = "Settings"
    /\ settings_focus = "Function"
    /\ settings_position_x = 0
    /\ settings_position_y = 0
    /\ exit = FALSE
    /\ status = "running"
    /\ scanned = FALSE
    /\ events = 0

NextCalc == KeyEnter

SpecCalc == InitCalc /\ [][NextCalc]_vars

\* The session from construction, with the settings popup opened and the
\* focus moved to any cell of the grid (Tab and arrow keys only); from
\* there the user edits and confirms the focused field.
InitFocus ==
    /\ function_text = <<"x">>
    /\ expression = ExprX
    /\ data = <<>>
    /\ limits_indexs = <<None, None>>
    /\ bounds_text = << <<"0">>, <<"0">> >>
    /\ bounds = <<ToF(0), ToF(0)>>
    /\ upper_bound_line = <<>>
    /\ lower_bound_line = <<>>
    /\ x_axis_line = <<>>
    /\ window_x = <<-ToF(5), ToF(5)>>
    /\ window_x_text = << <<"-", "5">>, <<"5">> >>
    /\ window_y = <<-ToF(10), ToF(10)>>
    /\ window_y_text = << <<"-", "1", "0">>, <<"1", "0">> >>
    /\ area = 0
    /\ active_screen = "Settings"
    /\ settings_position_x \in 0..3
    /\ settings_position_y \in 0..1
    /\ settings_focus = SETTINGS_LAYOUT[settings_position_y + 1][settings_position_x + 1]
    /\ exit = FALSE
    /\ status = "running"
    /\ scanned = FALSE
    /\ events = 0

NextFocus ==
    \/ \E c \in Keys : KeyChar(c)
    \/ KeyBackspace
    \/ KeyEnter

SpecFocus == InitFocus /\ [][NextFocus]_vars

\* ================================================================ claims
\* The step taken is a Confirm (Enter) on a text field.
ConfirmText == KeyEnter /\ settings_focus # "RecalculateArea"

\* The step taken is a Confirm in which calculate_area ran: Enter on
\* RecalculateArea, or a commit whose recompute got as far as the
\* integrator.  CalcLimits is the index pair the integrator saw.
IntegratorRan ==
    /\ KeyEnter
    /\ \/ settings_focus = "RecalculateArea"
       \/ /\ ~IsNone(Parsed(settings_focus))
          /\ scanned'
          /\ status' # "hung"

\* C1: a Confirm on a text field whose buffer does not parse leaves the
\* committed function and numbers, the samples, the lines and the area
\* unchanged and the session alive.
C1_ParseFailureIsRecoverable ==
    [][(ConfirmText /\ IsNone(Parsed(settings_focus)))
         => (status' = "running" /\ UNCHANGED <<committed, derived, area>>)]_vars

\* C2: when the integrator runs while lower_index or upper_index is unset,
\* the session stays alive and the area keeps its previous value.
C2_UnsetIndexIsRecoverable ==
    [][(IntegratorRan /\ (IsNone(limits_indexs'[1]) \/ IsNone(limits_indexs'[2])))
         => (status' = "running" /\ area' = area)]_vars

\* C3: when the integrator runs with both indices set and
\* lower_index > upper_index (inverted bounds), the session stays alive and
\* no number is written to the area.
C3_InvertedRangeIsRecoverable ==
    [][(/\ IntegratorRan
        /\ ~IsNone(limits_indexs'[1])
        /\ ~IsNone(limits_indexs'[2])
        /\ Unwrap(limits_indexs'[1]) > Unwrap(limits_indexs'[2]))
         => (status' = "running" /\ area' = area)]_vars

\* C4: the focus coordinate stays in {0,1} x {0..3}; an arrow key at the
\* edge it points to leaves the coordinate unchanged, and any other arrow
\* key on Settings moves exactly one coordinate by exactly 1.
OnGrid == settings_position_x \in 0..3 /\ settings_position_y \in 0..1

SamePosition ==
    settings_position_x' = settings_position_x /\ settings_position_y' = settings_position_y

C4_FocusGrid ==
    /\ OnGrid
    /\ [][/\ OnGrid'
          /\ KeyLeft => IF settings_position_x = 0 THEN SamePosition
                        ELSE active_screen = "Settings" =>
                               /\ settings_position_x' = settings_position_x - 1
                               /\ settings_position_y' = settings_position_y
          /\ KeyRight => IF settings_position_x = 3 THEN SamePosition
                         ELSE active_screen = "Settings" =>
                                /\ settings_position_x' = settings_position_x + 1
                                /\ settings_position_y' = settings_position_y
          /\ KeyUp => IF settings_position_y = 0 THEN SamePosition
                      ELSE active_screen = "Settings" =>
                             /\ settings_position_y' = settings_position_y - 1
                             /\ settings_position_x' = settings_position_x
          /\ KeyDown => IF settings_position_y = 1 THEN SamePosition
                        ELSE active_screen = "Settings" =>
                               /\ settings_position_y' = settings_position_y + 1
                               /\ settings_position_x' = settings_position_x]_vars

\* The far corner of the grid, reached by arrow keys, with one more event
\* handled there.
C4_Witness ==
    /\ active_screen = "Settings"
    /\ settings_position_x = 3
    /\ settings_position_y = 1
    /\ events >= 6

\* 0-based index of the first sample of d whose x is at least b, if any.
FirstAtLeast(d, b) ==
    LET hits == {k \in 1..Len(d) : d[k][1] >= b}
    IN  IF hits = {} THEN None
        ELSE Some((CHOOSE k \in hits : \A j \in hits : k <= j) - 1)

\* C5: after a scan lower_index is the index of the first sample with
\* x >= lower and upper_index, independently, the index of the first
\* sample with x >= upper (equal indices when both are reached at the same
\* sample).
C5_IndicesIndependent ==
    scanned =>
        /\ limits_indexs[1] = FirstAtLeast(data, bounds[1])
        /\ limits_indexs[2] = FirstAtLeast(data, bounds[2])

\* C6: after a scan the index of a bound outside [x_min, x_max) is unset.
C6_OutsideBoundUnset ==
    scanned =>
        \A k \in 1..2 :
            (bounds[k] < window_x[1] \/ bounds[k] >= window_x[2])
                => IsNone(limits_indexs[k])

\* ceil(a / b) for a > 0, b > 0.
CeilDiv(a, b) == (a + b - 1) \div b

\* C7: after a scan of a window with x_min < x_max there are exactly
\* ceil((x_max - x_min) / step) samples, sample i has x = x_min + i * step,
\* and every x lies in [x_min, x_max).
C7_SampleGrid ==
    (scanned /\ window_x[1] < window_x[2]) =>
        /\ Len(data) = CeilDiv(window_x[2] - window_x[1], dx)
        /\ \A k \in 1..Len(data) :
               /\ data[k][1] = window_x[1] + (k - 1) * dx
               /\ window_x[1] <= data[k][1]
               /\ data[k][1] < window_x[2]

\* step * (y1 + y2) / 2 for the adjacent samples k, k+1 (1-based) of d.
PairTerm(d, k) == FDiv(FMul(dx, FAdd(d[k][2], d[k + 1][2])), ToF(2))

\* The terms of the pairs k, k+1 with lo < k and k+1 <= hi, added in
\* ascending order (lo, hi: the 0-based half-open index range [lo, hi)).
RECURSIVE PairSum(_, _, _)
PairSum(d, lo, hi) ==
    IF hi - lo < 2 THEN 0
    ELSE FAdd(PairSum(d, lo, hi - 1), PairTerm(d, hi - 1))

\* The integrator has produced the area of the current samples: the scan
\* completed and the process lives, so both indices are set and ordered.
AreaComputed == scanned /\ status = "running"

\* C8: with both indices set and lower_index <= upper_index <= len, the
\* area is the sum of step*(y1+y2)/2 over the adjacent pairs inside
\* [lower_index, upper_index); it is 0 when the range has fewer than two
\* samples.
C8_TrapezoidSum ==
    AreaComputed =>
        LET lo == Unwrap(limits_indexs[1])
            hi == Unwrap(limits_indexs[2])
        IN  /\ lo <= hi /\ hi <= Len(data)
            /\ area = PairSum(data, lo, hi)
            /\ (hi - lo < 2) => area = 0

\* A negative function integrated over at least two pairs: the area is
\* negative.
C8_Witness ==
    /\ AreaComputed
    /\ Unwrap(limits_indexs[2]) - Unwrap(limits_indexs[1]) >= 3
    /\ area < 0

\* Both bounds are abscissae of samples, a < b.
OnSampleGrid ==
    /\ bounds[1] < bounds[2]
    /\ \E k \in 1..Len(data) : data[k][1] = bounds[1]
    /\ \E k \in 1..Len(data) : data[k][1] = bounds[2]

\* C9: for f(x) = x and bounds a < b on the sample grid the area differs
\* from (b^2 - a^2)/2 by at most a constant times step^2 (the constant
\* taken as 1; both sides multiplied by 2 * Quanta^2).
C9_ErrorSecondOrder ==
    (AreaComputed /\ expression = ExprX /\ OnSampleGrid) =>
        Abs(2 * Quanta * area - (bounds[2] * bounds[2] - bounds[1] * bounds[1]))
            <= 2 * dx * dx

\* C10: in every state of the live session the committed window has
\* x_min < x_max and y_min < y_max.
C10_WindowOrdered ==
    status = "running" =>
        /\ window_x[1] < window_x[2]
        /\ window_y[1] < window_y[2]

\* ---------------------------------------------------------------- rebuild
\* d is the scan of the window wx for the expression expr: it starts at
\* x_min, each sample follows the previous one by one step, y = f(x), and
\* it stops at the first x that is not below x_max.
IsScanOf(d, expr, wx) ==
    IF ~(wx[1] < wx[2]) THEN d = <<>>
    ELSE /\ Len(d) > 0
         /\ d[1][1] = wx[1]
         /\ \A k \in 1..Len(d) : d[k][1] < wx[2] /\ d[k][2] = Eval(expr, d[k][1])
         /\ \A k \in 1..(Len(d) - 1) : d[k + 1][1] = FAdd(d[k][1], dx)
         /\ ~(FAdd(d[Len(d)][1], dx) < wx[2])

\* 0-based index of the first sample of d at or after b other than the
\* sample of index skip (an option), if any.
FirstAtLeastExcept(d, b, skip) ==
    LET hits == {k \in 1..Len(d) : d[k][1] >= b /\ Some(k - 1) # skip}
    IN  IF hits = {} THEN None
        ELSE Some((CHOOSE k \in hits : \A j \in hits : k <= j) - 1)

\* line is the vertical line at abscissa x from ymin up to height: empty
\* when ymin is not below height, else it starts at ymin and stays below
\* height, every point at x.
IsBoundLineOf(line, x, ymin, height) ==
    IF ~(ymin < height) THEN line = <<>>
    ELSE /\ Len(line) > 0
         /\ line[1] = <<x, ymin>>
         /\ \A k \in 1..Len(line) : line[k][1] = x /\ line[k][2] < height

\* line is the zero line of the window wx.
IsXAxisLineOf(line, wx) ==
    IF ~(wx[1] < wx[2]) THEN line = <<>>
    ELSE /\ Len(line) > 0
         /\ line[1] = <<wx[1], 0>>
         /\ \A k \in 1..Len(line) : line[k][2] = 0 /\ line[k][1] < wx[2]

\* The derived data is the recompute of the committed values.
Rebuilt ==
    /\ IsScanOf(data, expression, window_x)
    /\ limits_indexs[1] = FirstAtLeast(data, bounds[1])
    /\ limits_indexs[2] = FirstAtLeastExcept(data, bounds[2], limits_indexs[1])
    /\ IsBoundLineOf(upper_bound_line, bounds[2], window_y[1],
                     Eval(expression, bounds[2]))
    /\ IsBoundLineOf(lower_bound_line, bounds[1], window_y[1],
                     Eval(expression, bounds[1]))
    /\ IsXAxisLineOf(x_axis_line, window_x)
    /\ ~IsNone(limits_indexs[1]) /\ ~IsNone(limits_indexs[2])
    /\ area = PairSum(data, Unwrap(limits_indexs[1]), Unwrap(limits_indexs[2]))

\* C11: whenever the last commit of a text field went through (the scan
\* ran to its end and the session lives), the samples and the index pair
\* are the scan of the committed function, window and bounds (nothing of
\* earlier samples is left), the three lines are those of the committed
\* bounds and window, and the area is the integral over these samples.
C11_FullRebuild == (scanned /\ status = "running") => Rebuilt

\* A commit of the upper bound 1 on top of the startup values, survived.
C11_Witness ==
    /\ status = "running"
    /\ scanned
    /\ bounds = <<ToF(0), ToF(1)>>
    /\ Len(data) > 0
    /\ Len(upper_bound_line) > 0

\* ------------------------------------------------------------ recalculate
\* The step taken is a Confirm (Enter) on RecalculateArea.
ConfirmRecalculate == settings_focus = "RecalculateArea" /\ KeyEnter

\* C12: a Confirm on RecalculateArea leaves the samples, the index pair,
\* the two bound lines, the zero line, the committed function, window and
\* bounds, the seven text buffers, the focus and the active screen as they
\* were (only the area may be written), whether or not the integrator
\* fails.
C12_RecalculateFrame ==
    [][ConfirmRecalculate
         => UNCHANGED <<data, limits_indexs, upper_bound_line, lower_bound_line,
                        x_axis_line, committed, texts, focus, active_screen>>]_vars

\* RecalculateArea is focused over a completed scan of the startup values
\* and a Confirm has been handled there.
C12_Witness ==
    /\ settings_focus = "RecalculateArea"
    /\ status = "running"
    /\ scanned
    /\ Len(data) > 0
    /\ bounds = <<ToF(0), ToF(0)>>
    /\ events >= 6

\* C13: a Confirm on RecalculateArea that succeeds yields the integral of
\* the samples held, whatever the area was before; a second one with the
\* same function, window and bounds therefore yields the same area.
C13_RecalculateIdempotent ==
    [][(ConfirmRecalculate /\ status' = "running")
         => /\ area' = PairSum(data, Unwrap(limits_indexs[1]), Unwrap(limits_indexs[2]))
            /\ area' = area]_vars

\* RecalculateArea is focused over samples with a non-zero integral (upper
\* bound 1 committed) and a Confirm has been handled there.
C13_Witness ==
    /\ settings_focus = "RecalculateArea"
    /\ status = "running"
    /\ scanned
    /\ bounds = <<ToF(0), ToF(1)>>
    /\ area # 0
    /\ events >= 7

\* ------------------------------------------------------- screens and keys
\* The step taken is an arrow key.
KeyArrow == KeyLeft \/ KeyRight \/ KeyUp \/ KeyDown

\* C14: while Main is active an arrow key leaves the focus coordinate and
\* the focused field unchanged.
C14_ArrowsInertOnMain ==
    [][(active_screen = "Main" /\ KeyArrow) => UNCHANGED focus]_vars

\* Main is active with the focus inside the grid (both neighbours exist in
\* each direction that is not an edge) and an event has been handled there.
C14_Witness ==
    /\ active_screen = "Main"
    /\ settings_position_x = 1
    /\ settings_position_y = 1
    /\ events >= 5

\* C15: Tab on Main switches to Settings and Tab on Settings stays on
\* Settings, in both cases with the focus, the text buffers, the committed
\* values and the exit flag unchanged; the only step from Settings to Main
\* is Esc.
C15_ToggleAsymmetric ==
    [][/\ KeyTab => /\ active_screen' = "Settings"
                    /\ UNCHANGED <<focus, texts, committed, exit>>
       /\ (active_screen = "Settings" /\ active_screen' = "Main") => KeyEsc]_vars

\* Settings is active after the focus was moved and a buffer edited there,
\* with one more event handled.
C15_Witness ==
    /\ active_screen = "Settings"
    /\ settings_focus = "LowerBound"
    /\ bounds_text[1] = <<"0", "1">>
    /\ events >= 4

\* C16: Esc on Settings returns to Main and leaves the exit flag unset,
\* Esc on Main sets it, no other event changes it, and no event is handled
\* once it is set.
C16_CancelAndExit ==
    [][/\ ~exit
       /\ (KeyEsc /\ active_screen = "Settings") => (active_screen' = "Main" /\ ~exit')
       /\ (KeyEsc /\ active_screen = "Main") => exit'
       /\ exit' => (KeyEsc /\ active_screen = "Main")]_vars

\* The session was ended from Main after a visit to Settings that moved
\* the focus.
C16_Witness ==
    /\ exit
    /\ active_screen = "Main"
    /\ settings_position_x = 1

\* The text buffer of a field (RecalculateArea has none).
BufferOf(field) ==
    CASE field = "Function"   -> function_text
      [] field = "LowerBound" -> bounds_text[1]
      [] field = "UpperBound" -> bounds_text[2]
      [] field = "MinimumX"   -> window_x_text[1]
      [] field = "MaximumX"   -> window_x_text[2]
      [] field = "MinimumY"   -> window_y_text[1]
      [] field = "MaximumY"   -> window_y_text[2]
      [] OTHER                -> <<>>

TextFields ==
    {"Function", "LowerBound", "UpperBound", "MinimumX", "MaximumX", "MinimumY",
     "MaximumY"}

\* The buffer of the focused field becomes t; nothing else changes but the
\* count of events.
OnlyFocusedBuffer(t) ==
    /\ \A f \in TextFields :
           BufferOf(f)' = IF f = settings_focus THEN t ELSE BufferOf(f)
    /\ UNCHANGED <<committed, derived, area, focus, active_screen, exit, status>>

\* C17: on Settings a character is appended to the buffer of the focused
\* field and Backspace removes its last character (nothing on an empty
\* buffer); with RecalculateArea focused both change nothing; no other
\* buffer, no committed value, no sample, no line and not the area changes.
C17_EditFrame ==
    [][active_screen = "Settings" =>
         /\ \A c \in Keys : KeyChar(c) => OnlyFocusedBuffer(BufferOf(settings_focus) \o <<c>>)
         /\ KeyBackspace =>
                OnlyFocusedBuffer(
                    IF BufferOf(settings_focus) = <<>> THEN <<>>
                    ELSE [k \in 1..(Len(BufferOf(settings_focus)) - 1)
                              |-> BufferOf(settings_focus)[k]])
         /\ (settings_focus = "RecalculateArea"
               /\ (KeyBackspace \/ \E c \in Keys : KeyChar(c))) => UNCHANGED texts]_vars

\* On Settings the lower-bound buffer "0" was emptied and "1" typed into
\* it, while the committed bounds and the derived data are as at startup.
C17_Witness ==
    /\ active_screen = "Settings"
    /\ settings_focus = "LowerBound"
    /\ bounds_text = << <<"1">>, <<"0">> >>
    /\ bounds = <<ToF(0), ToF(0)>>
    /\ data = <<>>

\* -------------------------------------------------------- line generators
\* The session with chosen committed bounds and windows, the settings
\* popup open on the Function field with a function text typed in, and the
\* user confirming it.  YBig is a magnitude at which adjacent numbers are
\* four quanta apart.
YBig == 4 * XBig

LineTexts == {<<"x">>, <<"-", "x">>}

LineBounds == {-ToF(11), -ToF(10), 0, ToF(1), YBig + 120}

LineWindowsX == {<<-ToF(5), ToF(5)>>, <<ToF(1), ToF(1)>>, <<ToF(5), -ToF(5)>>}

LineWindowsY == {<<-ToF(10), ToF(10)>>, <<YBig, YBig + ToF(10)>>}

InitLines ==
    /\ function_text \in LineTexts
    /\ expression = ExprX
    /\ window_x \in LineWindowsX
    /\ window_y \in LineWindowsY
    /\ bounds \in LineBounds \X LineBounds
    /\ data = <<>>
    /\ limits_indexs = <<None, None>>
    /\ bounds_text = << <<"0">>, <<"0">> >>
    /\ upper_bound_line = <<>>
    /\ lower_bound_line = <<>>
    /\ x_axis_line = <<>>
    /\ window_x_text = << <<"-", "5">>, <<"5">> >>
    /\ window_y_text = << <<"-", "1", "0">>, <<"1", "0">> >>
    /\ area = 0
    /\ active_screen = "Settings"
    /\ settings_focus = "Function"
    /\ settings_position_x = 0
    /\ settings_position_y = 0
    /\ exit = FALSE
    /\ status = "running"
    /\ scanned = FALSE
    /\ events = 0

SpecLines == InitLines /\ [][NextCalc]_vars

\* line is empty when height <= ymin, and each of its points is at
\* abscissa x with ymin <= y < height.
BoundLineWithin(line, x, ymin, height) ==
    /\ height <= ymin => line = <<>>
    /\ \A k \in 1..Len(line) :
           line[k][1] = x /\ ymin <= line[k][2] /\ line[k][2] < height

\* C18: the line generators terminate; a bound line is empty when
\* function(bound) <= y_min and the zero line is empty when
\* x_max <= x_min; otherwise every bound-line point has x = bound and
\* y_min <= y < function(bound), and every zero-line point has y = 0 and
\* x_min <= x < x_max.  (scanned: the sampling loop has ended, so what
\* runs next is the three generators.)
C18_LinesTerminate ==
    scanned =>
        /\ status # "hung"
        /\ BoundLineWithin(upper_bound_line, bounds[2], window_y[1],
                           Eval(expression, bounds[2]))
        /\ BoundLineWithin(lower_bound_line, bounds[1], window_y[1],
                           Eval(expression, bounds[1]))
        /\ window_x[2] <= window_x[1] => x_axis_line = <<>>
        /\ \A k \in 1..Len(x_axis_line) :
               /\ x_axis_line[k][2] = 0
               /\ window_x[1] <= x_axis_line[k][1]
               /\ x_axis_line[k][1] < window_x[2]

\* ------------------------------------------------------ dispatch on Main
\* The session from construction in which the popup is never opened: the
\* user types, erases and confirms while Main is active.
SpecMain == Init /\ [][NextFocus]_vars

\* The step taken is a Confirm on a text field whose buffer parses.
Commit == ConfirmText /\ ~IsNone(Parsed(settings_focus))

\* C19: while Main is active a typed character is still appended to the
\* buffer of the focused field, Backspace still removes its last character,
\* and a Confirm on a text field still commits the parsed value and
\* recomputes the derived data.
C19_DispatchIgnoresScreen ==
    [][active_screen = "Main" =>
         /\ \A c \in Keys :
                (KeyChar(c) /\ settings_focus # "RecalculateArea")
                    => BufferOf(settings_focus)' = BufferOf(settings_focus) \o <<c>>
         /\ (KeyBackspace /\ BufferOf(settings_focus) # <<>>)
                => Len(BufferOf(settings_focus)') = Len(BufferOf(settings_focus)) - 1
         /\ Commit =>
                /\ <<expression', bounds', window_x', window_y'>> =
                       LET v == Unwrap(Parsed(settings_focus))
                       IN  <<v.expression, v.bounds, v.window_x, v.window_y>>
                /\ status' = "running" => (scanned' /\ Rebuilt')]_vars

\* Two events after startup, the screen still Main: the Confirm has
\* sampled the default function and the character is in the buffer.
C19_Witness ==
    /\ events = 2
    /\ active_screen = "Main"
    /\ status = "running"
    /\ scanned
    /\ Len(data) > 0
    /\ function_text = <<"x", "1">>

\* ---------------------------------------------------------------- startup
\* No sample, no line point, no index and a zero area.
NothingDerived ==
    /\ data = <<>>
    /\ upper_bound_line = <<>>
    /\ lower_bound_line = <<>>
    /\ x_axis_line = <<>>
    /\ limits_indexs = <<None, None>>
    /\ area = 0

\* C20: at startup the default function x, window [-5,5] x [-10,10] and
\* bounds [0,0] are committed while the samples and the three lines are
\* empty, both indices unset and the area 0; this lasts until the first
\* Confirm on a text field that parses (no other event samples).
C20_StartupEmpty ==
    /\ NothingDerived
    /\ committed = <<ExprX, <<ToF(0), ToF(0)>>, <<-ToF(5), ToF(5)>>,
                     <<-ToF(10), ToF(10)>> >>
    /\ [][NothingDerived => (NothingDerived' \/ Commit)]_vars

\* Several events into the session (popup opened, focus moved, a buffer
\* edited) and still nothing derived for the startup values.
C20_Witness ==
    /\ NothingDerived
    /\ status = "running"
    /\ committed = <<ExprX, <<ToF(0), ToF(0)>>, <<-ToF(5), ToF(5)>>,
                     <<-ToF(10), ToF(10)>> >>
    /\ active_screen = "Settings"
    /\ bounds_text[1] = <<"1">>
    /\ events >= 5

\* ------------------------------------------------------- focus and layout
\* The field at (row, col) of the grid: row 0 is Function, LowerBound,
\* UpperBound, RecalculateArea and row 1 is MinimumX, MaximumX, MinimumY,
\* MaximumY.
FieldAt(row, col) ==
    IF row = 0
    THEN CASE col = 0 -> "Function"
           [] col = 1 -> "LowerBound"
           [] col = 2 -> "UpperBound"
           [] col = 3 -> "RecalculateArea"
    ELSE CASE col = 0 -> "MinimumX"
           [] col = 1 -> "MaximumX"
           [] col = 2 -> "MinimumY"
           [] col = 3 -> "MaximumY"

\* C21: in every state the focused field is the layout entry at the focus
\* coordinate (row = settings_position_y, col = settings_position_x), and
\* leaving Settings (Esc) and entering it (Tab) change neither the field
\* nor the coordinate.
C21_FocusMatchesLayout ==
    /\ [](/\ OnGrid
          /\ settings_focus = FieldAt(settings_position_y, settings_position_x))
    /\ [][(KeyEsc \/ KeyTab) => UNCHANGED focus]_vars

\* Main is active again after a visit to Settings that moved the focus to
\* MinimumY, and one more event has been handled.
C21_Witness ==
    /\ active_screen = "Main"
    /\ settings_focus = "MinimumY"
    /\ settings_position_x = 2
    /\ settings_position_y = 1
    /\ events >= 6
=============================================================================
